---- MODULE Spec2Model ----
(***************************************************************************)
(* KEPH task tracker: the task list (tabs, counts), the task item          *)
(* (checkbox / subtask / status-menu cascades) and the daily summary       *)
(* dialog (report partition, statistics, clipboard and PDF export).        *)
(*                                                                         *)
(* Time is a tick counter; a calendar day is TicksPerDay ticks.  A Date    *)
(* is the tick it denotes; an absent optional Date is Undefined.           *)
(***************************************************************************)
EXTENDS Integers, Sequences, FiniteSets, TLC

VARIABLES
    tasks,        \* TaskList prop `tasks`: the collection, a sequence of Task
    now,          \* the wall clock read by new Date() and isToday()
    activeTab,    \* TaskList state `activeTab`
    view,         \* what the last TaskList render produced (counts, list, day)
    lastCall,     \* the last TaskItem handler run and the onUpdate it issued
    summaryData,  \* TaskList state `summaryData`: Null, or the dialog's props
    report,       \* what the last DailySummaryDialog render computed, or Null
    isProcessing, \* DailySummaryDialog state `isProcessing`
    pdfJobs,      \* the html2canvas(...).then().catch().finally() chains alive
    clipboardWrites, \* navigator.clipboard.write promises still pending
    toasts,       \* the toast() calls made so far
    audit,        \* counts: export clicks, adapter calls, canvases rasterized,
                  \* failures, files saved, errors no handler caught
    savedPdf      \* the document of the last pdf.save(), or Null

listVars == <<tasks, now, activeTab, view, lastCall>>

dialogVars == <<summaryData, report>>

exportVars == <<isProcessing, pdfJobs, clipboardWrites, toasts, audit, savedPdf>>

vars == <<tasks, now, activeTab, view, lastCall, summaryData, report,
          isProcessing, pdfJobs, clipboardWrites, toasts, audit, savedPdf>>

-----------------------------------------------------------------------------
(* Bounds *)

MaxTasks == 1       \* tasks in the collection of Spec
MaxSubtasks == 2    \* subtasks per task
MaxTime == 2        \* last clock tick
TicksPerDay == 2    \* clock ticks per calendar day
MaxTabTasks == 4    \* tasks in the collection of TabSpec
MaxListTasks == 2   \* tasks in the collection of ListSpec
MaxMemberTasks == 2 \* tasks in the collection of MemberSpec
MaxGroup == 3       \* tasks in a report group of ReportSpec
MaxGroupSubtasks == 2  \* subtasks of a report group, all its tasks together
MaxClicks == 3      \* clicks on the export buttons in ExportSpec
MaxExportGroup == 1 \* tasks in a report group of ExportSpec
MaxImageSide == 4   \* width and height of the rasterized canvas, in pixels
MaxPageSide == 2    \* width and height of the PDF page, in page units

-----------------------------------------------------------------------------
(* Data model: Task, Subtask, TaskStatus *)

Undefined == -1

Null == [null |-> TRUE]

TaskStatus == {"current", "completed", "pending"}

Times == 0..MaxTime

Day(date) == date \div TicksPerDay

isToday(date, clock) == Day(date) = Day(clock)

Every(s, P(_)) == \A k \in 1..Len(s) : P(s[k])

Some(s, P(_)) == \E k \in 1..Len(s) : P(s[k])

Count(s, P(_)) == Cardinality({k \in 1..Len(s) : P(s[k])})

Map(s, F(_)) == [k \in 1..Len(s) |-> F(s[k])]

RECURSIVE SumInts(_)
SumInts(s) == IF Len(s) = 0 THEN 0 ELSE Head(s) + SumInts(Tail(s))

RECURSIVE GCD(_, _)
GCD(a, b) == IF b = 0 THEN a ELSE GCD(b, a % b)

\* the exact value n / d of a non-negative quotient, in lowest terms
Frac(n, d) == [n |-> n \div GCD(n, d), d |-> d \div GCD(n, d)]

\* subtask lists of n subtasks with every combination of flags
SubtaskLists(n) ==
    { [k \in 1..n |-> [id |-> k, completed |-> f[k]]] : f \in [1..n -> BOOLEAN] }

-----------------------------------------------------------------------------
(* Task store: onUpdate(id, updates) merges the partial fields *)

Merge(task, updates) ==
    [f \in DOMAIN task |-> IF f \in DOMAIN updates THEN updates[f] ELSE task[f]]

onUpdate(ts, id, updates) ==
    [i \in 1..Len(ts) |-> IF ts[i].id = id THEN Merge(ts[i], updates) ELSE ts[i]]

-----------------------------------------------------------------------------
(* TaskItem handlers: the updates each one passes to onUpdate *)

\* mutant: the primary checkbox leaves the subtasks alone
handleCheck_NoCascade(task, checked, date) ==
    [status |-> IF checked THEN "completed" ELSE "current",
     completedAt |-> IF checked THEN date ELSE Undefined]

handleCheck(task, checked, date) ==
    LET newStatus == IF checked THEN "completed" ELSE "current"
        updates == [status |-> newStatus,
                    completedAt |-> IF checked THEN date ELSE Undefined]
    IN  IF Len(task.subtasks) > 0
        THEN updates @@
             [subtasks |-> Map(task.subtasks,
                               LAMBDA st : [st EXCEPT !.completed = checked])]
        ELSE updates

\* mutant: the status menu never stamps completedAt
handleUpdateStatus_NeverStamps(status, date) ==
    [status |-> status, completedAt |-> Undefined]

\* mutant: the status menu stamps completedAt whatever the new status
handleUpdateStatus_AlwaysStamp(status, date) ==
    [status |-> status, completedAt |-> date]

handleUpdateStatus(status, date) ==
    [status |-> status,
     completedAt |-> IF status = "completed" THEN date ELSE Undefined]

\* mutant: an incomplete subtask list leaves status and completedAt as they were
handleSubtaskCheck_KeepStatus(task, subtaskId, checked, date) ==
    LET updatedSubtasks ==
            Map(task.subtasks,
                LAMBDA subtask : IF subtask.id = subtaskId
                                 THEN [subtask EXCEPT !.completed = checked]
                                 ELSE subtask)
        updates == [subtasks |-> updatedSubtasks]
    IN  IF Len(task.subtasks) > 0 /\ Every(updatedSubtasks, LAMBDA st : st.completed)
        THEN updates @@ [status |-> "completed", completedAt |-> date]
        ELSE updates

handleSubtaskCheck(task, subtaskId, checked, date) ==
    LET updatedSubtasks ==
            Map(task.subtasks,
                LAMBDA subtask : IF subtask.id = subtaskId
                                 THEN [subtask EXCEPT !.completed = checked]
                                 ELSE subtask)
        allSubtasksCompleted == Every(updatedSubtasks, LAMBDA st : st.completed)
        updates == [subtasks |-> updatedSubtasks]
    IN  IF Len(task.subtasks) > 0
        THEN IF allSubtasksCompleted
             THEN updates @@ [status |-> "completed", completedAt |-> date]
             ELSE updates @@ [status |-> "current", completedAt |-> Undefined]
        ELSE updates

-----------------------------------------------------------------------------
(* TaskList: tab filter, tab counts, render *)

filteredTasks(ts, tab, clock) ==
    SelectSeq(ts, LAMBDA task :
        IF tab = "current"
        THEN \/ task.status = "current"
             \/ /\ task.status = "completed"
                /\ task.completedAt # Undefined
                /\ isToday(task.completedAt, clock)
        ELSE IF tab = "completed"
        THEN /\ task.status = "completed"
             /\ task.completedAt # Undefined
             /\ ~isToday(task.completedAt, clock)
        ELSE IF tab = "pending"
        THEN task.status = "pending"
        ELSE FALSE)

\* mutant: every tab label counts by status alone
getCount_StatusOnly(ts, status, clock) ==
    Count(ts, LAMBDA t : t.status = status)

getCount(ts, status, clock) ==
    IF status = "current"
    THEN Count(ts, LAMBDA t :
            \/ t.status = "current"
            \/ /\ t.status = "completed"
               /\ t.completedAt # Undefined
               /\ isToday(t.completedAt, clock))
    ELSE IF status = "completed"
    THEN Count(ts, LAMBDA t :
            /\ t.status = "completed"
            /\ t.completedAt # Undefined
            /\ ~isToday(t.completedAt, clock))
    ELSE Count(ts, LAMBDA t : t.status = status)

\* Array.prototype.sort: a stable insertion sort, each element moved left
\* past the elements it compares below
ArraySort(array, comparefn(_, _)) ==
    LET Insert(sorted, x) ==
            LET stop == {i \in 1..Len(sorted) : comparefn(x, sorted[i]) >= 0}
                p == IF stop = {} THEN 0
                     ELSE CHOOSE i \in stop : \A j \in stop : j <= i
            IN  SubSeq(sorted, 1, p) \o <<x>> \o SubSeq(sorted, p + 1, Len(sorted))
        sorted[n \in 0..Len(array)] ==
            IF n = 0 THEN <<>> ELSE Insert(sorted[n - 1], array[n])
    IN  sorted[Len(array)]

\* `date?.getTime() || 0`
getTimeOrZero(date) == IF date = Undefined \/ date = 0 THEN 0 ELSE date

\* mutant: the completed tab in ascending order of completedAt
compareTasks_CompletedAscending(a, b, tab) ==
    IF tab = "completed"
    THEN getTimeOrZero(a.completedAt) - getTimeOrZero(b.completedAt)
    ELSE IF a.dueDate # Undefined /\ b.dueDate # Undefined
         THEN a.dueDate - b.dueDate
         ELSE IF a.dueDate # Undefined THEN -1
              ELSE IF b.dueDate # Undefined THEN 1
                   ELSE b.createdAt - a.createdAt

\* the comparator of sortTasks
compareTasks(a, b, tab) ==
    IF tab = "completed"
    THEN getTimeOrZero(b.completedAt) - getTimeOrZero(a.completedAt)
    ELSE IF a.dueDate # Undefined /\ b.dueDate # Undefined
         THEN a.dueDate - b.dueDate
         ELSE IF a.dueDate # Undefined THEN -1
              ELSE IF b.dueDate # Undefined THEN 1
                   ELSE b.createdAt - a.createdAt

sortTasks(tasksToSort, tab) ==
    ArraySort(tasksToSort, LAMBDA a, b : compareTasks(a, b, tab))

\* the group key 'No Date'
NoDate == Undefined

\* completedAt in the completed tab, dueDate in the others
dateKeySource(task, tab) ==
    IF tab = "completed" THEN task.completedAt ELSE task.dueDate

\* format(dateKeySource, 'yyyy-MM-dd'), the calendar day, or 'No Date'
dateKey(task, tab) ==
    IF dateKeySource(task, tab) # Undefined
    THEN Day(dateKeySource(task, tab))
    ELSE NoDate

\* the reduce of renderTaskList: the entries of the object it builds, in
\* insertion order, each with the tasks pushed to it
RECURSIVE groupedTasks(_, _)
groupedTasks(tasksToRender, tab) ==
    IF tasksToRender = <<>> THEN <<>>
    ELSE LET n == Len(tasksToRender)
             acc == groupedTasks(SubSeq(tasksToRender, 1, n - 1), tab)
             task == tasksToRender[n]
             key == dateKey(task, tab)
         IN  IF \E i \in 1..Len(acc) : acc[i].dateKey = key
             THEN [i \in 1..Len(acc) |->
                      IF acc[i].dateKey = key
                      THEN [acc[i] EXCEPT !.tasks = Append(@, task)]
                      ELSE acc[i]]
             ELSE Append(acc, [dateKey |-> key, tasks |-> <<task>>])

\* new Date('yyyy-MM-dd').getTime(): midnight of the day of the key
keyTime(key) == key * TicksPerDay

\* mutant: the dated keys in ascending order
compareKeys_Ascending(a, b) ==
    IF a = NoDate THEN 1
    ELSE IF b = NoDate THEN -1
         ELSE keyTime(a) - keyTime(b)

\* the comparator of sortedGroupKeys
compareKeys(a, b) ==
    IF a = NoDate THEN 1
    ELSE IF b = NoDate THEN -1
         ELSE keyTime(b) - keyTime(a)

\* Object.keys(groupedTasks).sort(...)
sortedGroupKeys(grouped) ==
    ArraySort([i \in 1..Len(grouped) |-> grouped[i].dateKey], compareKeys)

\* the sections renderTaskList shows: one per key of sortedGroupKeys, with the
\* tasks of the group after sortTasks
renderTaskList(tasksToRender, tab) ==
    LET grouped == groupedTasks(tasksToRender, tab)
        keys == sortedGroupKeys(grouped)
        groupTasks(key) ==
            grouped[CHOOSE i \in 1..Len(grouped) : grouped[i].dateKey = key].tasks
    IN  [i \in 1..Len(keys) |->
            [dateKey |-> keys[i], tasks |-> sortTasks(groupTasks(keys[i]), tab)]]

\* mutant: the render sorts the `tasks` prop itself
arraysSorted_TasksProp(ts, tab, clock) ==
    { [array |-> "tasks", key |-> NoDate, value |-> sortTasks(ts, tab)] }

\* the arrays a render sorts in place, each with its content afterwards:
\* sortTasks(groupTasks) sorts the array the reduce built for the key, which
\* holds tasks of filteredTasks, itself built by tasks.filter
arraysSorted(ts, tab, clock) ==
    LET sections == renderTaskList(filteredTasks(ts, tab, clock), tab)
    IN  { [array |-> "groupedTasks", key |-> sections[i].dateKey,
           value |-> sections[i].tasks] : i \in 1..Len(sections) }

\* the `tasks` prop after a render of the list
tasksAfterRender(ts, tab, clock) ==
    LET written == {w \in arraysSorted(ts, tab, clock) : w.array = "tasks"}
    IN  IF written = {} THEN ts ELSE (CHOOSE w \in written : TRUE).value

\* one render of TaskList: the three tab labels and the list of the active tab
Render(ts, tab, clock) ==
    [counts   |-> [s \in TaskStatus |-> getCount(ts, s, clock)],
     filtered |-> filteredTasks(ts, tab, clock),
     sections |-> renderTaskList(filteredTasks(ts, tab, clock), tab),
     tab      |-> tab,
     clock    |-> clock]

-----------------------------------------------------------------------------
(* DailySummaryDialog: partition and statistics of one render *)

\* mutant: a task counts as accomplished by its status flag alone
completedTasksList_ByStatus(ts) ==
    SelectSeq(ts, LAMBDA t : t.status = "completed")

completedTasksList(ts) ==
    SelectSeq(ts, LAMBDA t :
        IF Len(t.subtasks) > 0
        THEN Every(t.subtasks, LAMBDA st : st.completed)
        ELSE t.status = "completed")

\* mutant: the outstanding list is chosen by status, not by identity
incompleteTasksList_ByStatus(ts, completedList) ==
    SelectSeq(ts, LAMBDA t : t.status # "completed")

incompleteTasksList(ts, completedList) ==
    SelectSeq(ts, LAMBDA t : ~Some(completedList, LAMBDA ct : ct.id = t.id))

totalSubtasks(ts) ==
    SumInts(Map(ts, LAMBDA task :
        IF Len(task.subtasks) > 0 THEN Len(task.subtasks) ELSE 0))

completedSubtasks(ts) ==
    SumInts(Map(ts, LAMBDA task :
        IF Len(task.subtasks) > 0
        THEN Count(task.subtasks, LAMBDA st : st.completed) ELSE 0))

itemsForCompletion(ts) ==
    SumInts(Map(ts, LAMBDA task :
        IF Len(task.subtasks) > 0 THEN Len(task.subtasks) ELSE 1))

\* mutant: a completed status counts one unit even for a task with subtasks
completedItemsForCompletion_StatusFirst(ts) ==
    SumInts(Map(ts, LAMBDA task :
        IF task.status = "completed" THEN 1
        ELSE IF Len(task.subtasks) > 0
        THEN Count(task.subtasks, LAMBDA st : st.completed)
        ELSE 0))

completedItemsForCompletion(ts) ==
    SumInts(Map(ts, LAMBDA task :
        IF Len(task.subtasks) > 0
        THEN Count(task.subtasks, LAMBDA st : st.completed)
        ELSE IF task.status = "completed" THEN 1 ELSE 0))

\* (completed / items) * 100 as the exact quotient; 0 when there are no items
completionRate(ts) ==
    IF itemsForCompletion(ts) > 0
    THEN Frac(completedItemsForCompletion(ts) * 100, itemsForCompletion(ts))
    ELSE Frac(0, 1)

-----------------------------------------------------------------------------
(* The three renderings of the report.  A rendering is the sequence of its
   pieces in document order; a piece has the tag (or, in plain text, the kind
   of line) that carries it, its literal label or glyph, the id of the task
   or subtask whose title it shows (0 if none) and the numbers it prints *)

Piece(tag, label, ref, a, b) ==
    [tag |-> tag, label |-> label, ref |-> ref, a |-> a, b |-> b]

\* Number.prototype.toFixed(0) of a non-negative quotient: the nearest
\* integer, the larger one on a tie
toFixed0(x) == (2 * x.n + x.d) \div (2 * x.d)

\* parts.join(sep)
RECURSIVE Join(_, _)
Join(parts, sep) ==
    IF parts = <<>> THEN <<>>
    ELSE IF Len(parts) = 1 THEN parts[1]
         ELSE parts[1] \o sep \o Join(Tail(parts), sep)

renderTaskToHtml(task) ==
    <<Piece("h3", IF task.status = "completed" THEN "U+2705" ELSE "U+2B1C",
            task.id, 0, 0)>>
    \o (IF Len(task.subtasks) > 0
        THEN Map(task.subtasks, LAMBDA st :
                 Piece("li", IF st.completed THEN "U+2611" ELSE "U+2610",
                       st.id, 0, 0))
        ELSE <<>>)

generateHtmlReport(ts) ==
    LET completed == completedTasksList(ts)
        incomplete == incompleteTasksList(ts, completed)
    IN  <<Piece("h1", "reportTitle", 0, 0, 0),
          Piece("h2", "Daily Statistics", 0, 0, 0),
          Piece("li", "Overall Progress", 0, toFixed0(completionRate(ts)), 0),
          Piece("li", "Tasks Completed", 0, Len(completed), Len(ts)),
          Piece("li", "Subtasks Checked", 0, completedSubtasks(ts),
                totalSubtasks(ts)),
          Piece("hr", "", 0, 0, 0)>>
        \o (IF Len(completed) > 0
            THEN <<Piece("h2", "Accomplishments", 0, 0, 0)>>
                 \o Join(Map(completed, renderTaskToHtml),
                         <<Piece("hr", "", 0, 0, 0)>>)
            ELSE <<>>)
        \o (IF Len(incomplete) > 0
            THEN <<Piece("h2", "Outstanding Items", 0, 0, 0)>>
                 \o Join(Map(incomplete, renderTaskToHtml),
                         <<Piece("hr", "", 0, 0, 0)>>)
            ELSE <<>>)
        \o (IF Len(ts) = 0
            THEN <<Piece("p", "No tasks recorded for this day.", 0, 0, 0)>>
            ELSE <<>>)

\* mutant: the glyph of a task follows its subtasks when it has any
renderTaskToText_GlyphBySubtasks(task) ==
    <<Piece("task", IF (IF Len(task.subtasks) > 0
                        THEN Every(task.subtasks, LAMBDA st : st.completed)
                        ELSE task.status = "completed")
                    THEN "U+2705" ELSE "U+1F532",
            task.id, 0, 0)>>
    \o (IF Len(task.subtasks) > 0
        THEN Map(task.subtasks, LAMBDA st :
                 Piece("subtask", IF st.completed THEN "x" ELSE " ",
                       st.id, 0, 0))
        ELSE <<>>)

renderTaskToText(task) ==
    <<Piece("task", IF task.status = "completed" THEN "U+2705" ELSE "U+1F532",
            task.id, 0, 0)>>
    \o (IF Len(task.subtasks) > 0
        THEN Map(task.subtasks, LAMBDA st :
                 Piece("subtask", IF st.completed THEN "x" ELSE " ",
                       st.id, 0, 0))
        ELSE <<>>)

generatePlainTextReport(ts) ==
    LET completed == completedTasksList(ts)
        incomplete == incompleteTasksList(ts, completed)
    IN  <<Piece("title", "reportTitle", 0, 0, 0),
          Piece("heading", "Daily Statistics", 0, 0, 0),
          Piece("stat", "Overall Progress", 0, toFixed0(completionRate(ts)), 0),
          Piece("stat", "Tasks Completed", 0, Len(completed), Len(ts)),
          Piece("stat", "Subtasks Checked", 0, completedSubtasks(ts),
                totalSubtasks(ts)),
          Piece("rule", "-----------------", 0, 0, 0)>>
        \o (IF Len(completed) > 0
            THEN <<Piece("heading", "Accomplishments", 0, 0, 0)>>
                 \o Join(Map(completed, renderTaskToText),
                         <<Piece("rule", "---", 0, 0, 0)>>)
            ELSE <<>>)
        \o (IF Len(incomplete) > 0
            THEN <<Piece("heading", "Outstanding Items", 0, 0, 0)>>
                 \o Join(Map(incomplete, renderTaskToText),
                         <<Piece("rule", "---", 0, 0, 0)>>)
            ELSE <<>>)
        \o (IF Len(ts) = 0
            THEN <<Piece("line", "No tasks recorded for this day.", 0, 0, 0)>>
            ELSE <<>>)

\* one card of the dialog body: the icon of the task, then its subtasks
renderTaskDetails(task) ==
    <<Piece("div", IF task.status = "completed" THEN "CheckCircle2" ELSE "Circle",
            task.id, 0, 0)>>
    \o (IF Len(task.subtasks) > 0
        THEN Map(task.subtasks, LAMBDA subtask :
                 Piece("li", IF subtask.completed THEN "CheckCircle2" ELSE "Circle",
                       subtask.id, 0, 0))
        ELSE <<>>)

\* the body of the dialog, the element the PDF export rasterizes
renderReportContent(ts) ==
    LET completed == completedTasksList(ts)
        incomplete == incompleteTasksList(ts, completed)
    IN  <<Piece("DialogTitle", "reportTitle", 0, 0, 0),
          Piece("CardTitle", "Daily Statistics", 0, 0, 0),
          Piece("span", "Overall Progress", 0, toFixed0(completionRate(ts)), 0),
          Piece("Progress", "", 0, completionRate(ts).n, completionRate(ts).d),
          Piece("div", "Tasks Completed", 0, Len(completed), Len(ts)),
          Piece("div", "Subtasks Checked", 0, completedSubtasks(ts),
                totalSubtasks(ts))>>
        \o (IF Len(completed) > 0
            THEN <<Piece("h3", "Accomplishments", 0, 0, 0)>>
                 \o Join(Map(completed, renderTaskDetails), <<>>)
            ELSE <<>>)
        \o (IF Len(incomplete) > 0
            THEN <<Piece("Separator", "", 0, 0, 0),
                   Piece("h3", "Outstanding Items", 0, 0, 0)>>
                 \o Join(Map(incomplete, renderTaskDetails), <<>>)
            ELSE <<>>)
        \o (IF Len(ts) = 0
            THEN <<Piece("p", "No tasks recorded for this day.", 0, 0, 0)>>
            ELSE <<>>)

\* one render of the open dialog on the group `ts`: the values it computes,
\* the body it shows, and what its two report generators return
RenderReport(ts) ==
    [totalTasks          |-> Len(ts),
     completedTasksList  |-> completedTasksList(ts),
     incompleteTasksList |-> incompleteTasksList(ts, completedTasksList(ts)),
     completedTasksCount |-> Len(completedTasksList(ts)),
     totalSubtasks       |-> totalSubtasks(ts),
     completedSubtasks   |-> completedSubtasks(ts),
     completionRate      |-> completionRate(ts),
     content             |-> renderReportContent(ts),
     html                |-> generateHtmlReport(ts),
     text                |-> generatePlainTextReport(ts)]

-----------------------------------------------------------------------------
(* Initial collections *)

\* status, completedAt and subtasks as the mutation layer leaves them:
\* completedAt set iff completed, completed only with every subtask checked
ConsistentShapes(clock, maxSub) ==
    { t \in [status : TaskStatus, completedAt : {Undefined} \cup 0..clock,
             subtasks : UNION { SubtaskLists(n) : n \in 0..maxSub }] :
        /\ (t.completedAt # Undefined) <=> (t.status = "completed")
        /\ t.status = "completed" => Every(t.subtasks, LAMBDA s : s.completed) }

MkTask(id, shape) ==
    [id |-> id, status |-> shape.status, createdAt |-> id,
     completedAt |-> shape.completedAt, dueDate |-> Undefined,
     subtasks |-> shape.subtasks]

\* collections of up to maxLen tasks with distinct ids
Collections(maxLen, clock, maxSub) ==
    UNION { { [i \in 1..n |-> MkTask(i, f[i])] :
                f \in [1..n -> ConsistentShapes(clock, maxSub)] } : n \in 0..maxLen }

\* the `tasks` prop of the dialog: n tasks of one day with distinct ids, task i
\* with status st[i] and c[i] subtasks whose flags are the next c[i] of fl
GroupOf(n, st, c, fl, day) ==
    [i \in 1..n |->
        [id |-> i, status |-> st[i], createdAt |-> i,
         completedAt |-> IF st[i] = "completed" THEN day * TicksPerDay
                         ELSE Undefined,
         dueDate |-> day * TicksPerDay,
         subtasks |-> [k \in 1..c[i] |->
                          [id |-> k,
                           completed |-> fl[SumInts(SubSeq(c, 1, i - 1)) + k]]]]]

NoCall == [op |-> "none"]

\* the dialog as mounted: not processing, nothing in flight, no toast yet
ExportIdle ==
    /\ isProcessing = FALSE
    /\ pdfJobs = <<>>
    /\ clipboardWrites = 0
    /\ toasts = <<>>
    /\ audit = [clicks |-> 0, calls |-> 0, rasterized |-> 0, failures |-> 0,
                saved |-> 0, uncaught |-> 0]
    /\ savedPdf = Null

\* the list as mounted one tick before the last, so that the day changes
Init ==
    /\ now = MaxTime - 1
    /\ tasks \in Collections(MaxTasks, now, MaxSubtasks)
    /\ activeTab = "current"
    /\ view = Render(tasks, activeTab, now)
    /\ lastCall = NoCall
    /\ summaryData = Null
    /\ report = Null
    /\ ExportIdle

-----------------------------------------------------------------------------
(* Actions of the task list and its task items *)

\* Tabs onValueChange: setActiveTab, then re-render
SetActiveTab(tab) ==
    /\ tab # activeTab
    /\ activeTab' = tab
    /\ view' = Render(tasks, tab, now)
    /\ tasks' = tasksAfterRender(tasks, tab, now)
    /\ UNCHANGED <<now, lastCall>>
    /\ UNCHANGED <<dialogVars, exportVars>>

\* the clock advances; nothing re-renders
Tick ==
    /\ now < MaxTime
    /\ now' = now + 1
    /\ UNCHANGED <<tasks, activeTab, view, lastCall>>
    /\ UNCHANGED <<dialogVars, exportVars>>

\* a handler of a rendered TaskItem ran and called onUpdate(task.id, updates)
Issue(op, task, arg, updates) ==
    /\ tasks' = tasksAfterRender(onUpdate(tasks, task.id, updates), activeTab, now)
    /\ lastCall' = [op |-> op, id |-> task.id, task |-> task, arg |-> arg,
                    updates |-> updates]
    /\ view' = Render(onUpdate(tasks, task.id, updates), activeTab, now)
    /\ UNCHANGED <<now, activeTab>>
    /\ UNCHANGED <<dialogVars, exportVars>>

\* primary checkbox: checked={task.status === 'completed'}, click toggles it
HandleCheck ==
    \E k \in 1..Len(view.filtered) :
        LET task == view.filtered[k]
            checked == ~(task.status = "completed")
        IN  Issue("handleCheck", task, [checked |-> checked],
                  handleCheck(task, checked, now))

\* subtask checkbox: checked={subtask.completed}, click toggles it
HandleSubtaskCheck ==
    \E k \in 1..Len(view.filtered) :
        LET task == view.filtered[k]
        IN  \E j \in 1..Len(task.subtasks) :
                LET subtask == task.subtasks[j]
                    checked == ~subtask.completed
                IN  Issue("handleSubtaskCheck", task,
                          [subtaskId |-> subtask.id, checked |-> checked],
                          handleSubtaskCheck(task, subtask.id, checked, now))

\* status menu: each item is offered when task.status differs from it
HandleUpdateStatus ==
    \E k \in 1..Len(view.filtered) :
        LET task == view.filtered[k]
        IN  \E status \in TaskStatus :
                /\ task.status # status
                /\ Issue("handleUpdateStatus", task, [status |-> status],
                         handleUpdateStatus(status, now))

ChangeTab == \E tab \in TaskStatus : SetActiveTab(tab)

Next ==
    \/ HandleCheck
    \/ HandleSubtaskCheck
    \/ HandleUpdateStatus
    \/ ChangeTab
    \/ Tick

Spec == Init /\ [][Next]_vars

-----------------------------------------------------------------------------
(* The summary dialog on its own: props in, render out *)

\* a macrotask (a click, an adapter settling) runs only once the promise
\* reactions queued by the previous one have all run
MicrotaskPending ==
    \E j \in 1..Len(pdfJobs) : pdfJobs[j] \in {"fulfilled", "rejected", "caught"}

\* `Generate Summary`: setSummaryData({dateKey, tasks}), the dialog renders;
\* the group has up to maxLen tasks and maxSub subtasks in all
ShowSummaryOf(maxLen, maxSub) ==
    /\ summaryData = Null
    /\ ~MicrotaskPending
    /\ \E n \in 0..maxLen :
       \E st \in [1..n -> TaskStatus] :
       \E c \in [1..n -> 0..maxSub] :
            /\ SumInts(c) <= maxSub
            /\ \E fl \in [1..SumInts(c) -> BOOLEAN] :
                    LET group == GroupOf(n, st, c, fl, 0)
                    IN  /\ summaryData' = [dateKey |-> 0, tasks |-> group]
                        /\ report' = RenderReport(group)
    /\ UNCHANGED <<listVars, exportVars>>

ShowSummary == ShowSummaryOf(MaxGroup, MaxGroupSubtasks)

\* onClose: setSummaryData(null), the dialog renders nothing
CloseSummary ==
    /\ summaryData # Null
    /\ ~MicrotaskPending
    /\ summaryData' = Null
    /\ report' = Null
    /\ UNCHANGED <<listVars, exportVars>>

ReportInit ==
    /\ now = 0
    /\ tasks = <<>>
    /\ activeTab = "current"
    /\ view = Render(tasks, activeTab, now)
    /\ lastCall = NoCall
    /\ summaryData = Null
    /\ report = Null
    /\ ExportIdle

ReportNext ==
    \/ ShowSummary
    \/ CloseSummary

ReportSpec == ReportInit /\ [][ReportNext]_vars

-----------------------------------------------------------------------------
(* Properties of the report (checked under ReportSpec) *)

InList(list, t) == \E k \in 1..Len(list) : list[k] = t

Occurrences(list, t) == Cardinality({k \in 1..Len(list) : list[k] = t})

\* the accomplished predicate as the specification words it
Accomplished(t) ==
    \/ Len(t.subtasks) >= 1 /\ \A k \in 1..Len(t.subtasks) : t.subtasks[k].completed
    \/ Len(t.subtasks) = 0 /\ t.status = "completed"

\* C1: a task of the group is in completedTasksList iff (it has subtasks and
\* all are completed) or (it has none and its status is 'completed'); a task
\* with an incomplete subtask is never accomplished, whatever its status.
C1_AccomplishedIff ==
    report # Null =>
        \A k \in 1..Len(summaryData.tasks) :
            LET t == summaryData.tasks[k]
            IN  /\ InList(report.completedTasksList, t) <=> Accomplished(t)
                /\ (\E j \in 1..Len(t.subtasks) : ~t.subtasks[j].completed)
                        => ~InList(report.completedTasksList, t)

\* C1 witness: a task flagged 'completed' with an open subtask is left out,
\* a task flagged 'current' with every subtask done is taken in
C1_Witness ==
    /\ report # Null
    /\ \E k \in 1..Len(summaryData.tasks) :
            LET t == summaryData.tasks[k]
            IN  /\ t.status = "completed"
                /\ Len(t.subtasks) = 1
                /\ ~t.subtasks[1].completed
                /\ ~InList(report.completedTasksList, t)
    /\ \E k \in 1..Len(summaryData.tasks) :
            LET t == summaryData.tasks[k]
            IN  /\ t.status = "current"
                /\ Len(t.subtasks) = 1
                /\ InList(report.completedTasksList, t)

\* C2: completedTasksList and incompleteTasksList partition the group: every
\* task of the group occurs exactly once in the two lists taken together and
\* the lists hold nothing else.
C2_Partition ==
    report # Null =>
        /\ \A k \in 1..Len(summaryData.tasks) :
                Occurrences(report.completedTasksList, summaryData.tasks[k]) +
                Occurrences(report.incompleteTasksList, summaryData.tasks[k]) = 1
        /\ Len(report.completedTasksList) + Len(report.incompleteTasksList)
                = Len(summaryData.tasks)

\* C2 witness: both lists are non-empty, the outstanding one holds a task
\* flagged 'completed' and the accomplished one a task not flagged so
C2_Witness ==
    /\ report # Null
    /\ Len(summaryData.tasks) = 3
    /\ \E k \in 1..Len(report.incompleteTasksList) :
            report.incompleteTasksList[k].status = "completed"
    /\ \E k \in 1..Len(report.completedTasksList) :
            report.completedTasksList[k].status # "completed"

Max(a, b) == IF a >= b THEN a ELSE b

\* the completion units as the specification words them
UnitsTotal(ts) ==
    SumInts([k \in 1..Len(ts) |-> Max(1, Len(ts[k].subtasks))])

UnitsDone(ts) ==
    SumInts([k \in 1..Len(ts) |->
        IF Len(ts[k].subtasks) > 0
        THEN Cardinality({j \in 1..Len(ts[k].subtasks) : ts[k].subtasks[j].completed})
        ELSE IF ts[k].status = "completed" THEN 1 ELSE 0])

\* C3: completionRate = 100 * numerator / denominator over the completion
\* units (max(1, #subtasks) per task; completed subtasks, or 1 for a
\* completed task without subtasks); 0 for an empty group, 100 when every
\* unit is complete.
C3_CompletionRate ==
    report # Null =>
        LET ts   == summaryData.tasks
            rate == report.completionRate
        IN  /\ rate.d > 0
            /\ UnitsTotal(ts) > 0 =>
                    rate.n * UnitsTotal(ts) = 100 * UnitsDone(ts) * rate.d
            /\ Len(ts) = 0 => rate.n = 0
            /\ (UnitsTotal(ts) > 0 /\ UnitsDone(ts) = UnitsTotal(ts)) =>
                    (rate.n = 100 /\ rate.d = 1)

\* C3 witness: A (no subtasks, completed), B (2 subtasks, 1 completed),
\* C (no subtasks, pending): 4 units, 2 done, rate 50
C3_Witness ==
    /\ report # Null
    /\ Len(summaryData.tasks) = 3
    /\ LET A == summaryData.tasks[1]
           B == summaryData.tasks[2]
           C == summaryData.tasks[3]
       IN  /\ Len(A.subtasks) = 0 /\ A.status = "completed"
           /\ Len(B.subtasks) = 2
           /\ B.subtasks[1].completed /\ ~B.subtasks[2].completed
           /\ Len(C.subtasks) = 0 /\ C.status = "pending"
    /\ UnitsTotal(summaryData.tasks) = 4
    /\ UnitsDone(summaryData.tasks) = 2
    /\ report.completionRate = [n |-> 50, d |-> 1]
    /\ report.totalSubtasks = 2
    /\ report.completedSubtasks = 1

-----------------------------------------------------------------------------
(* Properties of the task item (checked under Spec) *)

TaskById(id) == tasks[CHOOSE i \in 1..Len(tasks) : tasks[i].id = id]

AllChecked(task) == Every(task.subtasks, LAMBDA st : st.completed)

\* C4: handleCheck(c) issues one update with status 'completed' if c else
\* 'current', completedAt set iff c, and, for a task with subtasks, every
\* subtask flag equal to c; running handleCheck(c) again on the updated task
\* changes neither its subtask flags nor its status.
C4_HandleCheckCascade ==
    lastCall.op = "handleCheck" =>
        LET c      == lastCall.arg.checked
            u      == lastCall.updates
            before == lastCall.task
            after  == TaskById(lastCall.id)
            again  == Merge(after, handleCheck(after, c, now))
        IN  /\ {"status", "completedAt"} \subseteq DOMAIN u
            /\ u.status = (IF c THEN "completed" ELSE "current")
            /\ (u.completedAt # Undefined) <=> c
            /\ Len(before.subtasks) > 0 =>
                    /\ "subtasks" \in DOMAIN u
                    /\ Len(u.subtasks) = Len(before.subtasks)
                    /\ \A k \in 1..Len(u.subtasks) :
                            /\ u.subtasks[k].id = before.subtasks[k].id
                            /\ u.subtasks[k].completed = c
            /\ after.status = u.status
            /\ (after.completedAt # Undefined) <=> c
            /\ \A k \in 1..Len(after.subtasks) : after.subtasks[k].completed = c
            /\ again.subtasks = after.subtasks
            /\ again.status = after.status

\* C4 witness: the checkbox of a task with one of two subtasks done was ticked
C4_Witness ==
    /\ lastCall.op = "handleCheck"
    /\ lastCall.arg.checked
    /\ Len(lastCall.task.subtasks) = 2
    /\ lastCall.task.subtasks[1].completed
    /\ ~lastCall.task.subtasks[2].completed
    /\ AllChecked(TaskById(lastCall.id))

\* C5: handleSubtaskCheck changes only the named subtask's flag, and leaves
\* the parent 'completed' with completedAt set exactly when every subtask is
\* completed after the change, otherwise 'current' with completedAt cleared,
\* whatever the parent's status was before.
C5_SubtaskCheckRecomputesParent ==
    lastCall.op = "handleSubtaskCheck" =>
        LET c      == lastCall.arg.checked
            sid    == lastCall.arg.subtaskId
            before == lastCall.task
            after  == TaskById(lastCall.id)
        IN  /\ Len(before.subtasks) > 0
            /\ Len(after.subtasks) = Len(before.subtasks)
            /\ \A k \in 1..Len(after.subtasks) :
                    /\ after.subtasks[k].id = before.subtasks[k].id
                    /\ after.subtasks[k].completed =
                            (IF before.subtasks[k].id = sid
                             THEN c ELSE before.subtasks[k].completed)
            /\ after.status = (IF AllChecked(after) THEN "completed" ELSE "current")
            /\ (after.completedAt # Undefined) <=> AllChecked(after)

\* C5 witness: a subtask of a pending task was ticked, another one is still
\* open, and the parent went from 'pending' to 'current'
C5_Witness ==
    /\ lastCall.op = "handleSubtaskCheck"
    /\ lastCall.task.status = "pending"
    /\ lastCall.arg.checked
    /\ Len(lastCall.task.subtasks) = 2
    /\ ~AllChecked(TaskById(lastCall.id))
    /\ TaskById(lastCall.id).status = "current"

\* C6: after any sequence of handleCheck, handleSubtaskCheck and
\* handleUpdateStatus, each update merged into the task, completedAt is set
\* iff status is 'completed'.
C6_CompletedAtIffCompleted ==
    \A i \in 1..Len(tasks) :
        (tasks[i].completedAt # Undefined) <=> (tasks[i].status = "completed")

\* C6 witness: the status menu moved a completed task to pending
C6_Witness ==
    /\ lastCall.op = "handleUpdateStatus"
    /\ lastCall.task.status = "completed"
    /\ lastCall.task.completedAt # Undefined
    /\ lastCall.arg.status = "pending"
    /\ TaskById(lastCall.id).completedAt = Undefined

\* C15: the operations of a task item (primary checkbox, subtask checkbox,
\* status menu) never leave a task with status 'completed' and a subtask
\* that is not completed, when no task started that way
C15_CompletedOnlyWithAllChecked ==
    \A i \in 1..Len(tasks) :
        tasks[i].status = "completed" => AllChecked(tasks[i])

-----------------------------------------------------------------------------
(* The tabs over larger collections of tasks without subtasks *)

TabInit ==
    /\ now \in Times
    /\ tasks \in Collections(MaxTabTasks, now, 0)
    /\ activeTab = "current"
    /\ view = Render(tasks, activeTab, now)
    /\ lastCall = NoCall
    /\ summaryData = Null
    /\ report = Null
    /\ ExportIdle

TabNext ==
    \/ ChangeTab
    \/ Tick

TabSpec == TabInit /\ [][TabNext]_vars

-----------------------------------------------------------------------------
(* Properties of the tabs (checked under TabSpec) *)

\* tab membership as the specification words it, `today` a calendar day
InTab(t, tab, today) ==
    \/ /\ tab = "current"
       /\ \/ t.status = "current"
          \/ t.status = "completed" /\ t.completedAt # Undefined
                /\ Day(t.completedAt) = today
    \/ /\ tab = "completed"
       /\ t.status = "completed" /\ t.completedAt # Undefined
       /\ Day(t.completedAt) # today
    \/ /\ tab = "pending"
       /\ t.status = "pending"

Members(tab, today) == {i \in 1..Len(tasks) : InTab(tasks[i], tab, today)}

\* C10: in every render, for every tab T the count shown for T equals the
\* number of tasks the list shows when T is active, whichever tab is active,
\* and both follow the membership rules (current: current or completed
\* today; completed: completed on another day; pending: pending).
C10_CountsMatchFilter ==
    LET today == Day(view.clock)
    IN  /\ \A T \in TaskStatus :
                /\ view.counts[T] = Len(filteredTasks(tasks, T, view.clock))
                /\ view.counts[T] = Cardinality(Members(T, today))
        /\ view.tab = activeTab
        /\ Len(view.filtered) = view.counts[activeTab]
        /\ \A k \in 1..Len(view.filtered) :
                InTab(view.filtered[k], activeTab, today)

\* C10 witness: 1 current, 1 completed today, 1 completed yesterday and
\* 1 pending task, seen from the pending tab: counts 2, 1, 1
C10_Witness ==
    LET today == Day(view.clock)
        N(P(_)) == Cardinality({i \in 1..Len(tasks) : P(tasks[i])})
    IN  /\ Len(tasks) = 4
        /\ N(LAMBDA t : t.status = "current") = 1
        /\ N(LAMBDA t : t.status = "completed" /\ Day(t.completedAt) = today) = 1
        /\ N(LAMBDA t : t.status = "completed" /\ Day(t.completedAt) = today - 1) = 1
        /\ N(LAMBDA t : t.status = "pending") = 1
        /\ activeTab = "pending"
        /\ view.counts = [current |-> 2, completed |-> 1, pending |-> 1]
        /\ Len(view.filtered) = 1

-----------------------------------------------------------------------------
(* The export buttons of the summary dialog *)

Toast(variant, title) == [variant |-> variant, title |-> title]

Bump(field) == [audit EXCEPT ![field] = @ + 1]

RemoveAt(s, j) == SubSeq(s, 1, j - 1) \o SubSeq(s, j + 1, Len(s))

\* <Button onClick={handleCopyToClipboard} disabled={isProcessing}>
CopyDisabled == isProcessing

\* <Button onClick={handleDownloadPdf} disabled={isProcessing}>
DownloadDisabled == isProcessing

\* `Copy for Docs`: navigator.clipboard.write(...)
HandleCopyToClipboard ==
    /\ report # Null
    /\ ~CopyDisabled
    /\ ~MicrotaskPending
    /\ audit.clicks < MaxClicks
    /\ clipboardWrites' = clipboardWrites + 1
    /\ audit' = [audit EXCEPT !.clicks = @ + 1, !.calls = @ + 1]
    /\ UNCHANGED <<isProcessing, pdfJobs, toasts>>
    /\ UNCHANGED <<listVars, dialogVars, savedPdf>>

\* the write promise fulfils: the first callback of then() toasts success
ClipboardWriteResolves ==
    /\ clipboardWrites > 0
    /\ ~MicrotaskPending
    /\ clipboardWrites' = clipboardWrites - 1
    /\ toasts' = Append(toasts, Toast("default", "Copied to clipboard!"))
    /\ UNCHANGED <<isProcessing, pdfJobs, audit>>
    /\ UNCHANGED <<listVars, dialogVars, savedPdf>>

\* mutant: then() is given no rejection callback
ClipboardWriteRejects_Unhandled ==
    /\ clipboardWrites > 0
    /\ ~MicrotaskPending
    /\ clipboardWrites' = clipboardWrites - 1
    /\ audit' = [audit EXCEPT !.failures = @ + 1, !.uncaught = @ + 1]
    /\ UNCHANGED <<isProcessing, pdfJobs, toasts>>
    /\ UNCHANGED <<listVars, dialogVars, savedPdf>>

\* the write promise rejects: the second callback of then() toasts the failure
ClipboardWriteRejects ==
    /\ clipboardWrites > 0
    /\ ~MicrotaskPending
    /\ clipboardWrites' = clipboardWrites - 1
    /\ toasts' = Append(toasts, Toast("destructive", "Copy Failed"))
    /\ audit' = Bump("failures")
    /\ UNCHANGED <<isProcessing, pdfJobs>>
    /\ UNCHANGED <<listVars, dialogVars, savedPdf>>

\* mutant: the handler starts html2canvas without setIsProcessing(true)
HandleDownloadPdf_NoGuard ==
    /\ report # Null
    /\ ~DownloadDisabled
    /\ ~MicrotaskPending
    /\ audit.clicks < MaxClicks
    /\ pdfJobs' = Append(pdfJobs, "rasterizing")
    /\ audit' = [audit EXCEPT !.clicks = @ + 1, !.calls = @ + 1]
    /\ UNCHANGED <<isProcessing, clipboardWrites, toasts>>
    /\ UNCHANGED <<listVars, dialogVars, savedPdf>>

\* `Download PDF`; the report element exists while the dialog is open:
\* setIsProcessing(true), html2canvas(reportElement, ...)
HandleDownloadPdf ==
    /\ report # Null
    /\ ~DownloadDisabled
    /\ ~MicrotaskPending
    /\ audit.clicks < MaxClicks
    /\ isProcessing' = TRUE
    /\ pdfJobs' = Append(pdfJobs, "rasterizing")
    /\ audit' = [audit EXCEPT !.clicks = @ + 1, !.calls = @ + 1]
    /\ UNCHANGED <<clipboardWrites, toasts>>
    /\ UNCHANGED <<listVars, dialogVars, savedPdf>>

\* the while loop of the then() callback: one more page, with the image
\* drawn at heightLeft - pdfHeight, as long as height is left
RECURSIVE addPages(_, _, _, _)
addPages(heightLeft, pdfHeight, pageHeight, positions) ==
    IF heightLeft > 0
    THEN addPages(heightLeft - pageHeight, pdfHeight, pageHeight,
                  Append(positions, heightLeft - pdfHeight))
    ELSE positions

\* mutant: heightLeft is not reduced after the first page
slicePages_FirstPageNotCounted(pdfHeight, pageHeight) ==
    addPages(pdfHeight, pdfHeight, pageHeight, <<0>>)

\* the vertical positions of the image, page by page: the first addImage at
\* position 0, heightLeft -= pageHeight, then the loop
slicePages(pdfHeight, pageHeight) ==
    addPages(pdfHeight - pageHeight, pdfHeight, pageHeight, <<0>>)

\* the document the then() callback saves.  pdfHeight is
\* imgProps.height * pdfWidth / imgProps.width; lengths are kept exact as
\* multiples of 1 / imgProps.width
PdfDocument(imgProps, pageSize) ==
    LET unit == imgProps.width
        pdfHeight == imgProps.height * pageSize.width
        pageHeight == pageSize.height * unit
    IN  [unit |-> unit, pdfHeight |-> pdfHeight, pageHeight |-> pageHeight,
         positions |-> slicePages(pdfHeight, pageHeight)]

\* html2canvas fulfils and the then() callback runs to pdf.save(...); the
\* canvas is up to maxImage pixels and the page up to maxPage units a side
PdfGeneratedOf(maxImage, maxPage) ==
    /\ ~MicrotaskPending
    /\ \E j \in 1..Len(pdfJobs) :
            /\ pdfJobs[j] = "rasterizing"
            /\ pdfJobs' = [pdfJobs EXCEPT ![j] = "fulfilled"]
    /\ \E imgProps \in [width : 1..maxImage, height : 1..maxImage],
          pageSize \in [width : 1..maxPage, height : 1..maxPage] :
            savedPdf' = PdfDocument(imgProps, pageSize)
    /\ audit' = [audit EXCEPT !.rasterized = @ + 1, !.saved = @ + 1]
    /\ UNCHANGED <<isProcessing, clipboardWrites, toasts>>
    /\ UNCHANGED <<listVars, dialogVars>>

\* the export of a report that fits one page
PdfGenerated == PdfGeneratedOf(1, 1)

\* html2canvas fulfils and the then() callback throws (toDataURL, addImage,
\* save, ...)
PdfGenerationFails ==
    /\ ~MicrotaskPending
    /\ \E j \in 1..Len(pdfJobs) :
            /\ pdfJobs[j] = "rasterizing"
            /\ pdfJobs' = [pdfJobs EXCEPT ![j] = "rejected"]
    /\ audit' = [audit EXCEPT !.rasterized = @ + 1, !.failures = @ + 1]
    /\ UNCHANGED <<isProcessing, clipboardWrites, toasts>>
    /\ UNCHANGED <<listVars, dialogVars, savedPdf>>

\* html2canvas rejects: the then() callback is skipped
PdfRasterizeFails ==
    /\ ~MicrotaskPending
    /\ \E j \in 1..Len(pdfJobs) :
            /\ pdfJobs[j] = "rasterizing"
            /\ pdfJobs' = [pdfJobs EXCEPT ![j] = "rejected"]
    /\ audit' = Bump("failures")
    /\ UNCHANGED <<isProcessing, clipboardWrites, toasts>>
    /\ UNCHANGED <<listVars, dialogVars, savedPdf>>

\* catch(): console.error and the destructive toast
PdfCatch ==
    /\ \E j \in 1..Len(pdfJobs) :
            /\ pdfJobs[j] = "rejected"
            /\ pdfJobs' = [pdfJobs EXCEPT ![j] = "caught"]
    /\ toasts' = Append(toasts, Toast("destructive", "PDF Generation Failed"))
    /\ UNCHANGED <<isProcessing, clipboardWrites, audit>>
    /\ UNCHANGED <<listVars, dialogVars, savedPdf>>

\* mutant: setIsProcessing(false) sits at the end of then(), not in finally()
PdfFinally_OnSuccessOnly ==
    /\ \E j \in 1..Len(pdfJobs) :
            /\ pdfJobs[j] \in {"fulfilled", "caught"}
            /\ pdfJobs' = RemoveAt(pdfJobs, j)
            /\ isProcessing' = IF pdfJobs[j] = "fulfilled" THEN FALSE
                               ELSE isProcessing
    /\ UNCHANGED <<clipboardWrites, toasts, audit>>
    /\ UNCHANGED <<listVars, dialogVars, savedPdf>>

\* finally(): setIsProcessing(false); the chain is over
PdfFinally ==
    /\ \E j \in 1..Len(pdfJobs) :
            /\ pdfJobs[j] \in {"fulfilled", "caught"}
            /\ pdfJobs' = RemoveAt(pdfJobs, j)
    /\ isProcessing' = FALSE
    /\ UNCHANGED <<clipboardWrites, toasts, audit>>
    /\ UNCHANGED <<listVars, dialogVars, savedPdf>>

ShowExportSummary == ShowSummaryOf(MaxExportGroup, 0)

ExportInit ==
    /\ now = 0
    /\ tasks = <<>>
    /\ activeTab = "current"
    /\ view = Render(tasks, activeTab, now)
    /\ lastCall = NoCall
    /\ summaryData = Null
    /\ report = Null
    /\ ExportIdle

\* html2canvas settles one way or the other
PdfSettles ==
    \/ PdfGenerated
    \/ PdfGenerationFails
    \/ PdfRasterizeFails

ExportNext ==
    \/ ShowExportSummary
    \/ CloseSummary
    \/ HandleCopyToClipboard
    \/ ClipboardWriteResolves
    \/ ClipboardWriteRejects
    \/ HandleDownloadPdf
    \/ PdfSettles
    \/ PdfCatch
    \/ PdfFinally

ExportSpec == ExportInit /\ [][ExportNext]_vars

\* the event loop runs every queued reaction, and html2canvas settles
FairExportSpec ==
    /\ ExportInit
    /\ [][ExportNext]_vars
    /\ WF_vars(PdfSettles)
    /\ WF_vars(PdfCatch)
    /\ WF_vars(PdfFinally)

-----------------------------------------------------------------------------
(* Properties of the export buttons (checked under ExportSpec) *)

InFlight == clipboardWrites + Len(pdfJobs)

Destructive == Cardinality({k \in 1..Len(toasts) : toasts[k].variant = "destructive"})

HasToast(title) == \E k \in 1..Len(toasts) : toasts[k].title = title

C8_ProcessingEventuallyCleared == isProcessing ~> ~isProcessing

\* C8 witness: a PDF export failed, its toast is up and the flag is cleared
C8_Witness ==
    /\ HasToast("PDF Generation Failed")
    /\ audit.failures >= 1
    /\ pdfJobs = <<>>
    /\ ~isProcessing

-----------------------------------------------------------------------------
(* The grouped list: collections whose tasks carry due dates, in any order
   of creation *)

\* status and completedAt as the mutation layer leaves them, any due date
ListShapes(clock) ==
    { t \in [status : TaskStatus, completedAt : {Undefined} \cup 0..clock,
             dueDate : {Undefined} \cup Times] :
        (t.completedAt # Undefined) <=> (t.status = "completed") }

\* a collection of n tasks without subtasks; task `id` was the id-th to be
\* created, the collection holds the tasks in the order `order`, and the
\* task at place i has status and dates f[i]
ListCollection(n, order, f) ==
    [i \in 1..n |->
        [id |-> order[i], status |-> f[i].status, createdAt |-> order[i],
         completedAt |-> f[i].completedAt, dueDate |-> f[i].dueDate,
         subtasks |-> <<>>]]

\* the list as first rendered, at the last tick of the clock
ListInit ==
    /\ now = MaxTime
    /\ \E n \in 0..MaxListTasks :
           \E order \in Permutations(1..n), f \in [1..n -> ListShapes(now)] :
               tasks = ListCollection(n, order, f)
    /\ activeTab = "current"
    /\ view = Render(tasks, activeTab, now)
    /\ lastCall = NoCall
    /\ summaryData = Null
    /\ report = Null
    /\ ExportIdle

ListNext == ChangeTab

ListSpec == ListInit /\ [][ListNext]_vars

-----------------------------------------------------------------------------
(* Properties of the grouped list (checked under ListSpec) *)

\* the places (section, position) at which the sections show the task `id`
Places(sections, id) ==
    { p \in UNION { {<<i, j>> : j \in 1..Len(sections[i].tasks)} :
                    i \in 1..Len(sections) } :
        sections[p[1]].tasks[p[2]].id = id }

\* C11: the sections of a render partition the filtered tasks: each filtered
\* task is shown exactly once, under the calendar day of its completedAt in
\* the completed tab and of its dueDate in the other tabs, or under 'No Date'
\* when it lacks that date, and nothing else is shown; no two sections have
\* the same key, the 'No Date' section is last and the dated sections are in
\* descending order of their day
C11_GroupsPartitionFiltered ==
    LET sections == view.sections
        dateOf(t) == IF view.tab = "completed" THEN t.completedAt ELSE t.dueDate
        keyOf(t) == IF dateOf(t) = Undefined THEN NoDate ELSE Day(dateOf(t))
    IN  /\ \A k \in 1..Len(view.filtered) :
               LET t == view.filtered[k]
               IN  /\ Cardinality(Places(sections, t.id)) = 1
                   /\ \A p \in Places(sections, t.id) :
                          /\ sections[p[1]].tasks[p[2]] = t
                          /\ sections[p[1]].dateKey = keyOf(t)
        /\ \A i \in 1..Len(sections) :
               /\ sections[i].tasks # <<>>
               /\ \A j \in 1..Len(sections[i].tasks) :
                      InList(view.filtered, sections[i].tasks[j])
        /\ \A i, j \in 1..Len(sections) :
               i < j => /\ sections[i].dateKey # NoDate
                        /\ \/ sections[j].dateKey = NoDate
                           \/ sections[i].dateKey > sections[j].dateKey

\* C11 witness: the first task of the collection has no due date and the
\* second has one; the pending tab shows the dated section before 'No Date'
C11_Witness ==
    /\ Len(tasks) = 2
    /\ activeTab = "pending"
    /\ Len(view.filtered) = 2
    /\ tasks[1].dueDate = Undefined
    /\ tasks[2].dueDate # Undefined
    /\ Len(view.sections) = 2
    /\ view.sections[1].dateKey = Day(tasks[2].dueDate)
    /\ view.sections[2].dateKey = NoDate

\* C13: a switch of the active tab, with the filtering, grouping and sorting
\* of the render that follows it, leaves the task collection as it was (the
\* same tasks in the same order with the same fields) and issues no update,
\* delete or duplicate callback
C13_TabSwitchKeepsCollection ==
    [][activeTab' # activeTab => tasks' = tasks /\ lastCall' = lastCall]_vars

\* C13 witness: after a switch to the pending tab the list shows two pending
\* tasks of one group in the reverse of their order in the collection
C13_Witness ==
    /\ activeTab = "pending"
    /\ Len(tasks) = 2
    /\ tasks[1].createdAt < tasks[2].createdAt
    /\ Len(view.sections) = 1
    /\ view.sections[1].tasks = <<tasks[2], tasks[1]>>

\* `a` may be shown before `b` in a group of the tab `tab`: in the completed
\* tab by completedAt descending, a missing completedAt earlier than any date;
\* in the other tabs dated tasks before undated ones, dated tasks by dueDate
\* ascending, undated tasks by createdAt descending
InOrder(a, b, tab) ==
    IF tab = "completed"
    THEN \/ b.completedAt = Undefined
         \/ a.completedAt # Undefined /\ a.completedAt >= b.completedAt
    ELSE \/ a.dueDate # Undefined /\ b.dueDate = Undefined
         \/ a.dueDate # Undefined /\ b.dueDate # Undefined
                /\ a.dueDate <= b.dueDate
         \/ a.dueDate = Undefined /\ b.dueDate = Undefined
                /\ a.createdAt >= b.createdAt

\* C14: in every date group of a render, each task shown before another is
\* in order with it under the rule of the active tab
C14_GroupsSorted ==
    \A g \in 1..Len(view.sections) :
        \A i, j \in 1..Len(view.sections[g].tasks) :
            i < j => InOrder(view.sections[g].tasks[i],
                             view.sections[g].tasks[j], view.tab)

\* C14 witness: the completed tab shows two tasks completed on the same
\* earlier day, the later completion first, against their collection order
C14_Witness ==
    /\ activeTab = "completed"
    /\ Len(tasks) = 2
    /\ Len(view.sections) = 1
    /\ view.sections[1].dateKey # NoDate
    /\ view.sections[1].tasks = <<tasks[2], tasks[1]>>
    /\ tasks[1].completedAt < tasks[2].completedAt

-----------------------------------------------------------------------------
(* Agreement of the three renderings (checked under ReportSpec) *)

\* how each rendering marks its section headings, its tasks and subtasks
HtmlMarks ==
    [heading |-> "h2", task |-> "h3", subtask |-> "li",
     done |-> "U+2705", subtaskDone |-> "U+2611"]

TextMarks ==
    [heading |-> "heading", task |-> "task", subtask |-> "subtask",
     done |-> "U+2705", subtaskDone |-> "x"]

DomMarks ==
    [heading |-> "h3", task |-> "div", subtask |-> "li",
     done |-> "CheckCircle2", subtaskDone |-> "CheckCircle2"]

\* the indexes lo..hi of the pieces with tag `tag`, ascending
IndexesOf(pieces, lo, hi, tag) ==
    LET S == {i \in lo..hi : pieces[i].tag = tag}
        seq[n \in 0..Cardinality(S)] ==
            IF n = 0 THEN <<>>
            ELSE Append(seq[n - 1],
                        CHOOSE i \in S : Cardinality({j \in S : j < i}) = n - 1)
    IN  seq[Cardinality(S)]

\* the tasks a reader finds under the heading `label`, top to bottom, each
\* with its completion glyph and the marks of its subtasks
ReadSection(pieces, marks, label) ==
    LET H == {i \in 1..Len(pieces) :
                pieces[i].tag = marks.heading /\ pieces[i].label = label}
    IN  IF H = {} THEN <<>>
        ELSE LET h == CHOOSE i \in H : TRUE
                 later == {j \in (h + 1)..Len(pieces) :
                             pieces[j].tag = marks.heading}
                 end == IF later = {} THEN Len(pieces) + 1
                        ELSE CHOOSE j \in later : \A l \in later : j <= l
                 at == IndexesOf(pieces, h + 1, end - 1, marks.task)
             IN  [k \in 1..Len(at) |->
                    LET stop == IF k < Len(at) THEN at[k + 1] ELSE end
                        subs == IndexesOf(pieces, at[k] + 1, stop - 1,
                                          marks.subtask)
                    IN  [id |-> pieces[at[k]].ref,
                         done |-> pieces[at[k]].label = marks.done,
                         subtasks |->
                            [m \in 1..Len(subs) |->
                                [id |-> pieces[subs[m]].ref,
                                 done |-> pieces[subs[m]].label
                                            = marks.subtaskDone]]]]

\* the numbers printed next to the statistic `label`
ReadStat(pieces, label) ==
    LET i == CHOOSE i \in 1..Len(pieces) : pieces[i].label = label
    IN  <<pieces[i].a, pieces[i].b>>

\* what a rendering tells its reader
ReadReport(pieces, marks) ==
    [progress        |-> ReadStat(pieces, "Overall Progress")[1],
     tasksCompleted  |-> ReadStat(pieces, "Tasks Completed"),
     subtasksChecked |-> ReadStat(pieces, "Subtasks Checked"),
     accomplishments |-> ReadSection(pieces, marks, "Accomplishments"),
     outstanding     |-> ReadSection(pieces, marks, "Outstanding Items")]

\* a task as a section should show it
Shown(t) ==
    [id |-> t.id, done |-> (t.status = "completed"),
     subtasks |-> [m \in 1..Len(t.subtasks) |->
                      [id |-> t.subtasks[m].id,
                       done |-> t.subtasks[m].completed]]]

NotAccomplished(t) == ~Accomplished(t)

\* C12: the body of the dialog, the HTML report and the plain-text report of
\* one render tell the same: the same three statistics, the same tasks under
\* 'Accomplishments' and under 'Outstanding Items', each in the order of the
\* group, and for every task the same completion glyph (set iff its status
\* is 'completed') and for every subtask the same mark (set iff completed)
C12_RenderingsAgree ==
    report # Null =>
        LET group == summaryData.tasks
            dom == ReadReport(report.content, DomMarks)
            html == ReadReport(report.html, HtmlMarks)
            text == ReadReport(report.text, TextMarks)
        IN  /\ dom = html
            /\ html = text
            /\ dom.accomplishments
                 = Map(SelectSeq(group, Accomplished), Shown)
            /\ dom.outstanding
                 = Map(SelectSeq(group, NotAccomplished), Shown)

\* C12 witness: the first task of the group is outstanding, with one subtask
\* checked and one not, and the second is accomplished; the reports show the
\* second task first, and tell the subtasks apart
C12_Witness ==
    /\ report # Null
    /\ Len(summaryData.tasks) = 2
    /\ LET text == ReadReport(report.text, TextMarks)
       IN  /\ Len(text.accomplishments) = 1
           /\ text.accomplishments[1].id = 2
           /\ text.accomplishments[1].done
           /\ Len(text.outstanding) = 1
           /\ text.outstanding[1].id = 1
           /\ ~text.outstanding[1].done
           /\ Len(text.outstanding[1].subtasks) = 2
           /\ text.outstanding[1].subtasks[1].done
           /\ ~text.outstanding[1].subtasks[2].done

-----------------------------------------------------------------------------
(* The PDF export with canvases of any size *)

PdfSliced == PdfGeneratedOf(MaxImageSide, MaxPageSide)

PdfNext ==
    \/ ShowExportSummary
    \/ CloseSummary
    \/ HandleDownloadPdf
    \/ PdfSliced
    \/ PdfFinally

PdfSpec == ExportInit /\ [][PdfNext]_vars

-----------------------------------------------------------------------------
(* Properties of the PDF slicing (checked under PdfSpec) *)

\* the least integer not below h / p, for h, p > 0
Ceiling(h, p) == (h + p - 1) \div p

\* C16: a saved document whose image has scaled height H > 0, on pages of
\* height P > 0, has max(1, ceil(H / P)) pages, and its k-th page (k from 0)
\* draws the whole image at vertical position -k * P, so that page k shows
\* the band from k * P to (k + 1) * P of the image: the bands follow one
\* another without gap or overlap and reach the bottom of the image
C16_PagesCoverImage ==
    savedPdf # Null =>
        LET H == savedPdf.pdfHeight
            P == savedPdf.pageHeight
            n == Len(savedPdf.positions)
        IN  /\ H > 0 /\ P > 0
            /\ n = Max(1, Ceiling(H, P))
            /\ \A k \in 0..(n - 1) : savedPdf.positions[k + 1] = -(k * P)
            /\ n * P >= H

\* C16 witness: an image 8/3 page heights tall was saved on three pages, the
\* last one filled in part
C16_Witness ==
    /\ savedPdf # Null
    /\ savedPdf.unit = 3
    /\ savedPdf.pdfHeight = 8
    /\ savedPdf.pageHeight = 3
    /\ savedPdf.positions = <<0, -3, -6>>

-----------------------------------------------------------------------------
(* The tabs under the operations of the task items, over collections of
   several tasks with at most one subtask each *)

\* the list as mounted one tick before the last
MemberInit ==
    /\ now = MaxTime - 1
    /\ tasks \in Collections(MaxMemberTasks, now, 1)
    /\ activeTab = "current"
    /\ view = Render(tasks, activeTab, now)
    /\ lastCall = NoCall
    /\ summaryData = Null
    /\ report = Null
    /\ ExportIdle

MemberSpec == MemberInit /\ [][Next]_vars

\* the tabs that list the task at a render with the clock at `clock`
TabsOf(task, clock) ==
    {tab \in TaskStatus : InList(filteredTasks(tasks, tab, clock), task)}

\* C17: whatever handleCheck, handleSubtaskCheck and handleUpdateStatus did
\* to a consistent collection, every task is listed by exactly one of the
\* three tabs, at the clock of the last render and at the present clock, and
\* the three counts of the last render add up to the size of the collection
C17_EveryTaskInOneTab ==
    /\ \A i \in 1..Len(tasks) :
           /\ Cardinality(TabsOf(tasks[i], view.clock)) = 1
           /\ Cardinality(TabsOf(tasks[i], now)) = 1
    /\ view.counts["current"] + view.counts["completed"]
           + view.counts["pending"] = Len(tasks)

\* C17 witness: the status menu completed a pending task, which moved from
\* the pending tab to the current tab, next to a task completed the day
\* before, which the completed tab lists; the counts are 1, 1, 0
C17_Witness ==
    /\ Len(tasks) = 2
    /\ lastCall.op = "handleUpdateStatus"
    /\ lastCall.task.status = "pending"
    /\ lastCall.arg.status = "completed"
    /\ TabsOf(TaskById(lastCall.id), view.clock) = {"current"}
    /\ \E i \in 1..Len(tasks) :
           /\ tasks[i].id # lastCall.id
           /\ TabsOf(tasks[i], view.clock) = {"completed"}
    /\ view.counts = [current |-> 1, completed |-> 1, pending |-> 0]

====
